---------------------------- MODULE Spec2Model ----------------------------
(***************************************************************************)
(* Model of the context-aggregation and semantic-retrieval pipeline:       *)
(*   src/main.py                           the /context and /raw-context   *)
(*                                         handlers                        *)
(*   src/services/auth_service.py          check_permission, USERS_DB      *)
(*   src/services/context_service.py       ContextService (aggregation)    *)
(*   src/services/vector_context_service.py VectorContextService           *)
(*   src/services/vector_store.py          VectorStore                     *)
(*                                                                         *)
(* Python values are represented as follows.  A str is a TLA+ string; the  *)
(* characters of the few texts the model uses are given by Chars, and the  *)
(* string operations (lower, in, split_text) are computed on them.  None   *)
(* is the string "None" for a str field, NoneList for a list field, and    *)
(* the empty function for a dict field (the code only tests dicts for      *)
(* truthiness and membership, so None and {} behave alike).  A limit of 0  *)
(* stands for a limit that is None or 0: the code only tests it for        *)
(* truthiness.                                                             *)
(***************************************************************************)
EXTENDS Integers, Sequences, FiniteSets, Bags, TLC

-----------------------------------------------------------------------------
(* Bounds of the model *)

\* largest request.limit a client sends
MaxLimit == 2
\* number of calls (HTTP requests, direct service calls) served in one run
MaxCalls == 2
\* number of adapter and vector backend calls that fail in one run
MaxFailures == 1
\* RecursiveCharacterTextSplitter(chunk_size=1000, chunk_overlap=100), scaled
\* down to the length of the model's texts
ChunkSize == 2
ChunkOverlap == 1

-----------------------------------------------------------------------------
(* Python values *)

None == "None"
NoneList == <<"None">>
EmptyDict == <<>>

\* bool(x) of a str or Optional[str]
TruthyStr(s) == s # None /\ s # ""
\* bool(x) of a list or Optional[list]
TruthyList(l) == l # NoneList /\ l # <<>>
\* bool(x) of a dict or Optional[dict]
TruthyDict(d) == DOMAIN d # {}

Range(f) == {f[i] : i \in DOMAIN f}
Min(a, b) == IF a <= b THEN a ELSE b

\* seq[:n]
Take(seq, n) == SubSeq(seq, 1, Min(n, Len(seq)))

RECURSIVE SelectIdx(_, _, _)
\* the elements seq[i] (in order) whose index i satisfies Keep
SelectIdx(seq, Keep(_), i) ==
    IF i > Len(seq) THEN <<>>
    ELSE (IF Keep(i) THEN <<seq[i]>> ELSE <<>>) \o SelectIdx(seq, Keep, i + 1)

RECURSIVE Flatten(_)
Flatten(seqs) ==
    IF seqs = <<>> THEN <<>> ELSE Head(seqs) \o Flatten(Tail(seqs))

-----------------------------------------------------------------------------
(* Texts.  Chars gives the characters of every text of the model.          *)

Texts == {"", "q", "x", "Qx", "xx", "Qxx", "n", "OQx", "OQ", "Ox", "Cx"}

Chars(t) ==
    CASE t = ""    -> <<>>
      [] t = "q"   -> <<"q">>
      [] t = "x"   -> <<"x">>
      [] t = "Qx"  -> <<"Q", "x">>
      [] t = "xx"  -> <<"x", "x">>
      [] t = "Qxx" -> <<"Q", "x", "x">>
      [] t = "n"   -> <<"n">>
      [] t = "OQx" -> <<"O", "Q", "x">>
      [] t = "OQ"  -> <<"O", "Q">>
      [] t = "Ox"  -> <<"O", "x">>
      [] t = "Cx"  -> <<"C", "x">>

Str(cs) == CHOOSE t \in Texts : Chars(t) = cs

LowerChar(c) == IF c = "Q" THEN "q" ELSE c

\* str.lower(), as a character sequence
Lower(t) == [i \in DOMAIN Chars(t) |-> LowerChar(Chars(t)[i])]

\* a in b, on character sequences
SubstringOf(a, b) ==
    \E k \in 0..(Len(b) - Len(a)) : SubSeq(b, k + 1, k + Len(a)) = a

\* query.lower() in text.lower()
ContainsIgnoreCase(text, query) == SubstringOf(Lower(query), Lower(text))


-----------------------------------------------------------------------------
(* The external services: what the four source adapters can return.        *)
(* `age` is the age of a record in days; a record is "recent" for a        *)
(* days_back window when its age lies within it.                           *)

AllSources == <<"zoom", "gmail", "notion", "salesforce">>

\* Zoom transcripts, newest first; the start_time of m3 is not in ISO format
ZoomTranscripts ==
    << [meeting_id |-> "m1", transcript |-> "Qx", start_time |-> "iso", age |-> 3],
       [meeting_id |-> "m2", transcript |-> "x",  start_time |-> "iso", age |-> 20],
       [meeting_id |-> "m3", transcript |-> "x",  start_time |-> "malformed", age |-> 40] >>

\* Gmail messages, newest first; e1 and e2 belong to one thread
GmailEmails ==
    << [id |-> "e1", thread_id |-> "t1", body |-> "Qxx", date |-> "rfc", age |-> 3],
       [id |-> "e2", thread_id |-> "t1", body |-> "x",   date |-> "Unknown", age |-> 20] >>

\* Notion pages; p2 has no text blocks
NotionPages ==
    << [id |-> "p1", text |-> "Qx", last_edited_time |-> "iso"],
       [id |-> "p2", text |-> "",   last_edited_time |-> "iso"] >>

\* Salesforce records, ORDER BY LastModifiedDate DESC
Opportunities ==
    << [Id |-> "o1", Name |-> "Qx", age |-> 3],
       [Id |-> "o2", Name |-> "x",  age |-> 20] >>

Accounts ==
    << [Id |-> "A1", Description |-> "x"],
       [Id |-> "A2", Description |-> "n"] >>

Contacts ==
    << [Id |-> "c1", AccountId |-> "A2", LastName |-> "x"],
       [Id |-> "c2", AccountId |-> "A1", LastName |-> "x"] >>

\* what one adapter call can do: return its records, or raise
FetchOutcomes(source) ==
    IF source = "notion" THEN {"ok", "raise", "detail_raise"} ELSE {"ok", "raise"}

Recent(records, days_back) == SelectSeq(records, LAMBDA r : r.age <= days_back)

\* ZoomClient.get_recent_meeting_transcripts
get_recent_meeting_transcripts(days_back, limit) ==
    Take(Recent(ZoomTranscripts, days_back), limit)

\* GmailClient.get_recent_emails
get_recent_emails(days_back, limit) == Take(Recent(GmailEmails, days_back), limit)

\* GmailClient.search_emails: the messages Gmail matches to the term
search_emails(search_term, limit) ==
    Take(SelectSeq(GmailEmails, LAMBDA r : ContainsIgnoreCase(r.body, search_term)), limit)

\* NotionClient.get_database_pages
get_database_pages(limit) == Take(NotionPages, limit)

\* NotionClient.search_pages: the pages Notion matches to the query
search_pages(query, limit) ==
    Take(SelectSeq(NotionPages, LAMBDA r : ContainsIgnoreCase(r.text, query)), limit)

\* SalesforceClient.get_opportunities
get_opportunities(days_back, limit) == Take(Recent(Opportunities, days_back), limit)

\* SalesforceClient.get_accounts, called without a search term
get_accounts(limit) == Take(Accounts, limit)

\* SalesforceClient.get_contacts
get_contacts(account_id, limit) ==
    Take(SelectSeq(Contacts, LAMBDA r : r.AccountId = account_id), limit)

-----------------------------------------------------------------------------
(* Context items (src/models/schemas.py).  attr names the natural id       *)
(* attribute the object has ("none" for a plain ContextItem), nid is its   *)
(* value, meta_id is metadata.get("id").                                   *)

ContextItem(type, source, content, attr, nid, meta_id, timestamp, vector) ==
    [type |-> type, source |-> source, content |-> content, attr |-> attr,
     nid |-> nid, meta_id |-> meta_id, timestamp |-> timestamp, vector |-> vector]

MeetingContext(r, now) ==
    ContextItem("meeting", "zoom", r.transcript, "meeting_id", r.meeting_id, None, now, FALSE)

EmailContext(r, now) ==
    ContextItem("email", "gmail", r.body, "thread_id", r.thread_id, r.id, now, FALSE)

DocumentContext(r, now) ==
    ContextItem("document", "notion", r.text, "page_id", r.id, None, now, FALSE)

\* f"Opportunity: {Name}, Stage: ..., Amount: ..."
OpportunityContent(name) == Str(<<"O">> \o Chars(name))

OpportunityContext(r, now) ==
    ContextItem("opportunity", "salesforce", OpportunityContent(r.Name),
                "opportunity_id", r.Id, None, now, FALSE)

\* content = account.get("Description", "No description available")
AccountContext(r, now) ==
    ContextItem("account", "salesforce", r.Description, "account_id", r.Id, None, now, FALSE)

\* f"Contact: {FirstName} {LastName}, {Title}, {Email}"
ContactContent(name) == Str(<<"C">> \o Chars(name))

ContactContext(r, now) ==
    ContextItem("contact", "salesforce", ContactContent(r.LastName),
                "contact_id", r.Id, None, now, FALSE)

-----------------------------------------------------------------------------
(* Requests (ContextRequest, src/models/schemas.py)                        *)

ContextRequest(query, time_range, sources, limit, entity_focus) ==
    [query |-> query, time_range |-> time_range, sources |-> sources,
     limit |-> limit, entity_focus |-> entity_focus]

\* sources = request.sources or ["zoom", "gmail", "notion", "salesforce"]
EnabledSources(request) ==
    IF TruthyList(request.sources) THEN request.sources ELSE AllSources

\* days_back = 7 unless request.time_range holds "days_back"
DaysBack(request) ==
    IF TruthyDict(request.time_range) /\ "days_back" \in DOMAIN request.time_range
    THEN request.time_range["days_back"]
    ELSE 7

\* `limit or d`
LimitOr(limit, d) == IF limit # 0 THEN limit ELSE d

-----------------------------------------------------------------------------
(* ContextService: the per-source pipelines.  `outcome` is what the        *)
(* adapter call does, `now` the clock value the items are stamped with.    *)

\* variant: the query test of _get_zoom_context compares without lower()
ZoomContextCaseSensitive(query, days_back, limit, outcome, now) ==
    IF outcome = "raise" THEN <<>>
    ELSE LET transcripts == get_recent_meeting_transcripts(days_back, LimitOr(limit, 5))
             kept == SelectSeq(transcripts, LAMBDA t :
                        ~(TruthyStr(query)
                          /\ ~SubstringOf(Chars(query), Chars(t.transcript))))
         IN  IF \E i \in DOMAIN kept : kept[i].start_time = "malformed"
             THEN <<>>
             ELSE [i \in DOMAIN kept |-> MeetingContext(kept[i], now)]

_get_zoom_context(query, days_back, limit, outcome, now) ==
    IF outcome = "raise" THEN <<>>
    ELSE LET transcripts == get_recent_meeting_transcripts(days_back, LimitOr(limit, 5))
             kept == SelectSeq(transcripts, LAMBDA t :
                        ~(TruthyStr(query) /\ ~ContainsIgnoreCase(t.transcript, query)))
         IN  \* datetime.fromisoformat raises on a malformed start_time; the
             \* only handler is the one around the whole method
             IF \E i \in DOMAIN kept : kept[i].start_time = "malformed"
             THEN <<>>
             ELSE [i \in DOMAIN kept |-> MeetingContext(kept[i], now)]

\* variant: the handler of _get_gmail_context returns what the adapter had
\* delivered before it raised, instead of []
GmailContextKeepingPartial(query, days_back, limit, outcome, now) ==
    LET emails == IF TruthyStr(query)
                  THEN search_emails(query, LimitOr(limit, 10))
                  ELSE get_recent_emails(days_back, LimitOr(limit, 10))
    IN  [i \in DOMAIN emails |-> EmailContext(emails[i], now)]

_get_gmail_context(query, days_back, limit, outcome, now) ==
    IF outcome = "raise" THEN <<>>
    ELSE LET emails == IF TruthyStr(query)
                       THEN search_emails(query, LimitOr(limit, 10))
                       ELSE get_recent_emails(days_back, LimitOr(limit, 10))
         IN  \* an unparsable date falls back to now(); no record is dropped
             [i \in DOMAIN emails |-> EmailContext(emails[i], now)]

_get_notion_context(query, limit, outcome, now) ==
    IF outcome = "raise" THEN <<>>
    ELSE LET pages == IF TruthyStr(query)
                      THEN search_pages(query, LimitOr(limit, 10))
                      ELSE get_database_pages(LimitOr(limit, 10))
             \* get_page_content raising for the first page skips that page only
             ok(i) == pages[i].id # None /\ ~(outcome = "detail_raise" /\ i = 1)
             kept == SelectIdx(pages, ok, 1)
         IN  [i \in DOMAIN kept |-> DocumentContext(kept[i], now)]

_get_salesforce_context(query, entity_focus, days_back, limit, outcome, now) ==
    IF outcome = "raise" THEN <<>>
    ELSE IF TruthyDict(entity_focus) /\ "account_id" \in DOMAIN entity_focus
    THEN LET account_id == entity_focus["account_id"]
             accounts == get_accounts(1)
             contacts == get_contacts(account_id, LimitOr(limit, 5))
         IN  [i \in DOMAIN accounts |-> AccountContext(accounts[i], now)]
             \o [i \in DOMAIN contacts |-> ContactContext(contacts[i], now)]
    ELSE LET opportunities == get_opportunities(days_back, LimitOr(limit, 5))
             kept == SelectSeq(opportunities, LAMBDA o :
                        ~(TruthyStr(query) /\ ~ContainsIgnoreCase(o.Name, query)))
         IN  [i \in DOMAIN kept |-> OpportunityContext(kept[i], now)]

\* the pipeline get_context runs for one enabled source
SourceContext(source, request, outcome, now) ==
    CASE source = "zoom" ->
           _get_zoom_context(request.query, DaysBack(request), request.limit, outcome, now)
      [] source = "gmail" ->
           _get_gmail_context(request.query, DaysBack(request), request.limit, outcome, now)
      [] source = "notion" ->
           _get_notion_context(request.query, request.limit, outcome, now)
      [] source = "salesforce" ->
           _get_salesforce_context(request.query, request.entity_focus,
                                   DaysBack(request), request.limit, outcome, now)

-----------------------------------------------------------------------------
(* ContextService.get_context: sort and truncate                           *)

\* datetime.min, the key of an item without timestamp
DatetimeMin == 0

\* key=lambda x: x.timestamp if x.timestamp else datetime.min
\* (a timestamp of 0 stands for None)
TimestampKey(x) == IF x.timestamp # 0 THEN x.timestamp ELSE DatetimeMin

\* x goes behind every element whose key is at least its own
InsertDescending(sorted, x) ==
    LET ahead == {i \in DOMAIN sorted : TimestampKey(sorted[i]) >= TimestampKey(x)}
        k == IF ahead = {} THEN 0 ELSE CHOOSE i \in ahead : \A j \in ahead : j <= i
    IN  SubSeq(sorted, 1, k) \o <<x>> \o SubSeq(sorted, k + 1, Len(sorted))

RECURSIVE SortInto(_, _)
SortInto(sorted, rest) ==
    IF rest = <<>> THEN sorted
    ELSE SortInto(InsertDescending(sorted, Head(rest)), Tail(rest))

\* variant: sorted ascending and then reversed, which also reverses the ties
SortAscendingReversed(items) ==
    SortInto(<<>>, [i \in DOMAIN items |-> items[Len(items) + 1 - i]])

\* list.sort(key=..., reverse=True): stable, descending
SortByTimestamp(items) == SortInto(<<>>, items)

\* if request.limit and len(context_items) > request.limit: truncate
ApplyLimit(items, limit) ==
    IF limit # 0 /\ Len(items) > limit THEN SubSeq(items, 1, limit) ELSE items

ContextResponse(source, items, query) ==
    [status |-> 200, source |-> source, context_items |-> items, query |-> query]

\* variant: the aggregator leaves `query` of its response at the default
AggregationResponseWithoutQuery(request, items) ==
    ContextResponse("vibecoding-mcp",
                    ApplyLimit(SortByTimestamp(items), request.limit),
                    None)

\* the tail of ContextService.get_context, from the sort to the return
AggregationResponse(request, items) ==
    ContextResponse("vibecoding-mcp",
                    ApplyLimit(SortByTimestamp(items), request.limit),
                    request.query)

-----------------------------------------------------------------------------
(* VectorStore (src/services/vector_store.py).  The Chroma collection and  *)
(* the tracking list self.documents are bags of chunks: no code depends on *)
(* the order of either.  vector_db.built is `self.vector_db is not None`.  *)

RECURSIVE SeqToBag(_)
SeqToBag(seq) ==
    IF seq = <<>> THEN EmptyBag ELSE SetToBag({Head(seq)}) (+) SeqToBag(Tail(seq))

RECURSIVE Windows(_, _)
\* the windows of ChunkSize characters, ChunkSize - ChunkOverlap apart
Windows(cs, from) ==
    IF from + ChunkSize - 1 >= Len(cs)
    THEN <<Str(SubSeq(cs, from, Len(cs)))>>
    ELSE <<Str(SubSeq(cs, from, from + ChunkSize - 1))>>
         \o Windows(cs, from + ChunkSize - ChunkOverlap)

\* self.text_splitter.split_text(content)
split_text(content) ==
    IF Len(Chars(content)) <= ChunkSize THEN <<content>> ELSE Windows(Chars(content), 1)

\* item.get("id", ""): no ContextItem subtype has a field named id
ItemDictId(item) == ""

\* the Documents add_items builds for one item (lines 27-69)
ItemDocuments(item) ==
    IF ~TruthyStr(item.content) THEN <<>>
    ELSE LET texts == split_text(item.content)
         IN  [i \in DOMAIN texts |->
                [page_content |-> texts[i], source |-> item.source, type |-> item.type,
                 id |-> ItemDictId(item), chunk |-> i - 1, total_chunks |-> Len(texts)]]

NewDocuments(context_items) ==
    Flatten([i \in DOMAIN context_items |-> ItemDocuments(context_items[i])])

NoVectorDb == [built |-> FALSE, chunks |-> EmptyBag]

\* variant: every call builds the index anew from its own chunks
add_itemsReplacingIndex(vdb, docs, context_items, outcome) ==
    LET new == SeqToBag(NewDocuments(context_items))
    IN  [documents |-> docs (+) new,
         vector_db |-> IF outcome = "raise" THEN vdb
                       ELSE [built |-> TRUE, chunks |-> new],
         raised    |-> outcome = "raise"]

\* VectorStore.add_items; `outcome` is what the Chroma / embedding call does.
\* The tracking list is extended before the backend is called.
add_items(vdb, docs, context_items, outcome) ==
    LET new == SeqToBag(NewDocuments(context_items))
    IN  [documents |-> docs (+) new,
         vector_db |-> IF outcome = "raise" THEN vdb
                       ELSE IF ~vdb.built THEN [built |-> TRUE, chunks |-> new]
                       ELSE [built |-> TRUE, chunks |-> vdb.chunks (+) new],
         raised    |-> outcome = "raise"]

\* filter_dict of search: the allow-listed keys of filter_criteria
FilterDict(filter_criteria) ==
    IF TruthyDict(filter_criteria)
    THEN [k \in DOMAIN filter_criteria \cap {"source", "type"} |-> filter_criteria[k]]
    ELSE EmptyDict

\* the chunks a Chroma `filter` lets through (None: no filter)
Matching(chunks, filter) ==
    LET pass(c) == \A k \in DOMAIN filter : c[k] = filter[k]
        keep == {c \in BagToSet(chunks) : pass(c)}
    IN  [c \in keep |-> chunks[c]]

RECURSIVE Listing(_)
\* the chunks of a collection, each as often as it is stored, in a fixed order
Listing(chunks) ==
    IF BagToSet(chunks) = {} THEN <<>>
    ELSE LET c == CHOOSE x \in BagToSet(chunks) : TRUE
         IN  [i \in 1..chunks[c] |-> c]
             \o Listing([x \in BagToSet(chunks) \ {c} |-> chunks[x]])

\* what vector_db.similarity_search(query, k, filter) can answer: k of the
\* matching chunks (all of them when there are fewer), or an exception.  The
\* ranking is the embedding backend's: any matching chunk can come first,
\* the others follow it in the collection's order.
SimilarityAnswers(chunks, filter, k) ==
    LET all == Listing(Matching(chunks, filter))
        n == Min(k, Len(all))
        ranked == IF all = <<>> THEN {<<>>}
                  ELSE {[i \in 1..n |-> all[((first + i - 2) % Len(all)) + 1]] :
                           first \in 1..Len(all)}
    IN  {[raised |-> FALSE, results |-> r] : r \in ranked}
        \cup {[raised |-> TRUE, results |-> <<>>]}

NoAnswer == [raised |-> FALSE, results |-> <<>>]

\* variant: search lets the exception of similarity_search escape and lists
\* the hits last to first
searchUnguardedReversed(vdb, docs, query, filter_criteria, limit, answer) ==
    IF ~vdb.built \/ BagToSet(docs) = {} THEN <<>>
    ELSE IF answer.raised THEN << [content |-> "raised", metadata |-> EmptyDict, score |-> 0] >>
    ELSE [i \in DOMAIN answer.results |->
            [content |-> answer.results[Len(answer.results) + 1 - i].page_content,
             metadata |-> answer.results[Len(answer.results) + 1 - i],
             score |-> 0]]

\* VectorStore.search; `answer` is what similarity_search does
search(vdb, docs, query, filter_criteria, limit, answer) ==
    IF ~vdb.built \/ BagToSet(docs) = {} THEN <<>>
    ELSE IF answer.raised THEN <<>>
    ELSE [i \in DOMAIN answer.results |->
            [content |-> answer.results[i].page_content,
             metadata |-> answer.results[i],
             score |-> 0]]

-----------------------------------------------------------------------------
(* AuthService (src/services/auth_service.py)                              *)

\* variant: a user table in which sales may not read Salesforce
UsersDbSalesWithoutSalesforce ==
    [admin |-> [zoom |-> TRUE, gmail |-> TRUE, notion |-> TRUE, salesforce |-> TRUE],
     sales |-> [zoom |-> TRUE, gmail |-> TRUE, notion |-> TRUE, salesforce |-> FALSE]]

USERS_DB ==
    [admin |-> [zoom |-> TRUE, gmail |-> TRUE, notion |-> TRUE, salesforce |-> TRUE],
     sales |-> [zoom |-> TRUE, gmail |-> TRUE, notion |-> TRUE, salesforce |-> TRUE]]

check_permission(username, source) ==
    IF source = "" THEN FALSE
    ELSE IF username = "admin" THEN TRUE
    ELSE IF source \in DOMAIN USERS_DB[username] THEN USERS_DB[username][source]
    ELSE FALSE

-----------------------------------------------------------------------------
(* State                                                                   *)

Procs == {1, 2}

VARIABLES
    initialized,    \* VectorContextService.initialized
    vector_db,      \* VectorStore.vector_db
    documents,      \* VectorStore.documents
    pc,             \* per call: "idle", "aggregating" (awaiting an adapter), "done"
    entry,          \* per call: "http", or the service method called directly
    user,           \* per call: the authenticated user, None for a service call
    request,        \* per call: the ContextRequest
    frame,          \* per call: which get_context of ContextService is running
    areq,           \* per call: the request that aggregation works on
    cursor,         \* per call: position in AllSources of the next source to fetch
    context_items,  \* per call: context_items of the running aggregation
    vector_items,   \* per call: the items rebuilt from the vector hits
    response,       \* per call: what the caller got
    clock,          \* per call: datetime.now(), in ticks
    fetches,        \* per call: how often each source's adapter was invoked
    searches,       \* per call: number of VectorStore.search calls
    indexed,        \* per call: the arguments of the add_items calls, in order
    outcomes,       \* per call: what each adapter call of the running aggregation did
    calls,          \* number of calls begun
    failures,       \* number of adapter / backend failures so far
    bootstraps,     \* number of bootstraps completed so far
    store_log,      \* the add_items calls made on the VectorStore itself, in order
    store_found     \* the search call made on the VectorStore itself since then

store == <<initialized, vector_db, documents>>
local == <<pc, entry, user, request, frame, areq, cursor, context_items,
           vector_items, response, clock, fetches, searches, indexed, outcomes>>
vars == <<initialized, vector_db, documents, pc, entry, user, request, frame,
          areq, cursor, context_items, vector_items, response, clock, fetches,
          searches, indexed, outcomes, calls, failures, bootstraps,
          store_log, store_found>>

NoRequest == ContextRequest(None, EmptyDict, NoneList, 0, EmptyDict)
NoResponse == [kind |-> "none", status |-> 0, source |-> None,
               context_items |-> <<>>, query |-> None, detail |-> ""]
\* no search call has been made on the VectorStore itself
NotSearched ==
    [op |-> "none", query |-> None, filter_criteria |-> EmptyDict, limit |-> 0,
     answer |-> NoAnswer, results |-> <<>>]

NoFetches == [s \in Range(AllSources) |-> 0]

\* a ContextResponse handed to the caller
Returned(r) ==
    [kind |-> "response", status |-> r.status, source |-> r.source,
     context_items |-> r.context_items, query |-> r.query, detail |-> ""]

\* initialize() returning None
ReturnedNone == [NoResponse EXCEPT !.kind = "returned"]

\* an exception leaving a service method
Exception(detail) == [NoResponse EXCEPT !.kind = "exception", !.detail = detail]

HTTPException(status_code, detail) ==
    [NoResponse EXCEPT !.kind = "http_error", !.status = status_code, !.detail = detail]

\* main.py: `except Exception as e: raise HTTPException(status_code=500, detail=str(e))`
\* around the whole handler body; HTTPException is an Exception
HandlerExcept(e) == HTTPException(500, e.detail)

\* the state of the world as one call p sees it
Machine(p) ==
    [initialized |-> initialized, vector_db |-> vector_db, documents |-> documents,
     bootstraps |-> bootstraps, failures |-> failures,
     pc |-> pc[p], entry |-> entry[p], user |-> user[p], request |-> request[p],
     frame |-> frame[p], areq |-> areq[p], cursor |-> cursor[p],
     context_items |-> context_items[p], vector_items |-> vector_items[p],
     response |-> response[p], clock |-> clock[p], fetches |-> fetches[p],
     searches |-> searches[p], indexed |-> indexed[p], outcomes |-> outcomes[p]]

\* a call that is just entering, before its first statement
Entering(p, ent, usr, req) ==
    [Machine(p) EXCEPT !.pc = "idle", !.entry = ent, !.user = usr, !.request = req,
        !.frame = "none", !.areq = NoRequest, !.cursor = 1, !.context_items = <<>>,
        !.vector_items = <<>>, !.response = NoResponse, !.clock = 1,
        !.fetches = NoFetches, !.searches = 0, !.indexed = <<>>, !.outcomes = <<>>]

Apply(p, m) ==
    /\ initialized' = m.initialized
    /\ vector_db' = m.vector_db
    /\ documents' = m.documents
    /\ bootstraps' = m.bootstraps
    /\ failures' = m.failures
    /\ pc' = [pc EXCEPT ![p] = m.pc]
    /\ entry' = [entry EXCEPT ![p] = m.entry]
    /\ user' = [user EXCEPT ![p] = m.user]
    /\ request' = [request EXCEPT ![p] = m.request]
    /\ frame' = [frame EXCEPT ![p] = m.frame]
    /\ areq' = [areq EXCEPT ![p] = m.areq]
    /\ cursor' = [cursor EXCEPT ![p] = m.cursor]
    /\ context_items' = [context_items EXCEPT ![p] = m.context_items]
    /\ vector_items' = [vector_items EXCEPT ![p] = m.vector_items]
    /\ response' = [response EXCEPT ![p] = m.response]
    /\ clock' = [clock EXCEPT ![p] = m.clock]
    /\ fetches' = [fetches EXCEPT ![p] = m.fetches]
    /\ searches' = [searches EXCEPT ![p] = m.searches]
    /\ indexed' = [indexed EXCEPT ![p] = m.indexed]
    /\ outcomes' = [outcomes EXCEPT ![p] = m.outcomes]
    /\ UNCHANGED <<store_log, store_found>>

Init ==
    /\ initialized = FALSE
    /\ vector_db = NoVectorDb
    /\ documents = EmptyBag
    /\ pc = [p \in Procs |-> "idle"]
    /\ entry = [p \in Procs |-> "none"]
    /\ user = [p \in Procs |-> None]
    /\ request = [p \in Procs |-> NoRequest]
    /\ frame = [p \in Procs |-> "none"]
    /\ areq = [p \in Procs |-> NoRequest]
    /\ cursor = [p \in Procs |-> 1]
    /\ context_items = [p \in Procs |-> <<>>]
    /\ vector_items = [p \in Procs |-> <<>>]
    /\ response = [p \in Procs |-> NoResponse]
    /\ clock = [p \in Procs |-> 1]
    /\ fetches = [p \in Procs |-> NoFetches]
    /\ searches = [p \in Procs |-> 0]
    /\ indexed = [p \in Procs |-> <<>>]
    /\ outcomes = [p \in Procs |-> <<>>]
    /\ calls = 0
    /\ failures = 0
    /\ bootstraps = 0
    /\ store_log = <<>>
    /\ store_found = NotSearched

-----------------------------------------------------------------------------
(* Control flow shared by the services.  Every operator maps the machine   *)
(* of one call to the machine at its next suspension point (an awaited     *)
(* adapter call) or at its return.                                         *)

\* position in AllSources of the first enabled source at or after k; 5 if none
NextEnabled(req, k) ==
    LET on == {j \in k..Len(AllSources) : AllSources[j] \in Range(EnabledSources(req))}
    IN  IF on = {} THEN Len(AllSources) + 1 ELSE CHOOSE j \in on : \A i \in on : j <= i

\* ContextService.get_context is entered with request req (lines 26-43)
StartAggregation(m, fr, req) ==
    [m EXCEPT !.pc = "aggregating", !.frame = fr, !.areq = req,
              !.cursor = NextEnabled(req, 1), !.context_items = <<>>, !.clock = 1,
              !.outcomes = <<>>]

Return(m, resp) == [m EXCEPT !.pc = "done", !.response = resp]

\* an exception leaves the service; an HTTP handler turns it into its error
Raise(m, e) ==
    [m EXCEPT !.pc = "done",
              !.response = IF m.entry = "http" THEN HandlerExcept(e) ELSE e]

\* VectorContextService.initialize builds this request (lines 24-28)
BootstrapRequest(days_back) ==
    ContextRequest(None, [days_back |-> days_back], AllSources, 100, EmptyDict)

\* self.vector_store.add_items(context_dicts), recorded on the machine
AddToStore(m, items, outcome) ==
    LET a == add_items(m.vector_db, m.documents, items, outcome)
    IN  [m EXCEPT !.vector_db = a.vector_db, !.documents = a.documents,
                  !.indexed = Append(@, items),
                  !.failures = @ + (IF a.raised THEN 1 ELSE 0)]

\* variant: the search is never restricted to the listed source
FilterCriteriaWithoutSource(req) == EmptyDict

\* filter_criteria of VectorContextService.get_context (lines 52-54)
FilterCriteria(req) ==
    IF TruthyList(req.sources)
    THEN [source |-> IF Len(req.sources) = 1 THEN req.sources[1] ELSE None]
    ELSE EmptyDict

\* variant: the rebuilt item takes the defaults of metadata.get, "unknown",
\* instead of the type and source stored with the chunk
VectorItemWithDefaults(result, now) ==
    ContextItem("unknown", "unknown", result.content,
                "none", None, result.metadata.id, now, TRUE)

\* the ContextItem rebuilt from one search result (lines 69-88)
VectorItem(result, now) ==
    ContextItem(result.metadata.type, result.metadata.source, result.content,
                "none", None, result.metadata.id, now, TRUE)

\* item_id of the merge loop (lines 97-103)
NaturalId(item) ==
    IF item.attr \in {"thread_id", "meeting_id", "page_id"} THEN item.nid ELSE ""

RECURSIVE MergeFresh(_, _, _)
\* the merge loop (lines 96-107)
MergeFresh(items, existing_ids, fresh) ==
    IF fresh = <<>> THEN items
    ELSE LET item == Head(fresh)
             item_id == NaturalId(item)
         IN  IF TruthyStr(item_id) /\ item_id \notin existing_ids
             THEN MergeFresh(Append(items, item), existing_ids \cup {item_id}, Tail(fresh))
             ELSE MergeFresh(items, existing_ids, Tail(fresh))

\* existing_ids before the loop (line 95)
ExistingIds(items) ==
    {items[i].meta_id : i \in {j \in DOMAIN items : TruthyStr(items[j].meta_id)}}

\* whether this search reaches the backend
BackendSearched(m) ==
    TruthyStr(m.request.query) /\ m.vector_db.built /\ BagToSet(m.documents) # {}

\* the answers the backend can give to the search of this call
AnswersFor(m) ==
    IF BackendSearched(m)
    THEN {a \in SimilarityAnswers(m.vector_db.chunks,
                                  FilterDict(FilterCriteria(m.request)),
                                  LimitOr(m.request.limit, 10)) :
             a.raised => m.failures < MaxFailures}
    ELSE {NoAnswer}

\* variant: a search without results is answered with the empty vector
\* response instead of the fallback
VectorPathWithoutFallback(m, answer) ==
    LET req == m.request
    IN  IF ~TruthyStr(req.query) THEN StartAggregation(m, "delegate", req)
        ELSE
        LET vector_results == search(m.vector_db, m.documents, req.query,
                                     FilterCriteria(req), LimitOr(req.limit, 10), answer)
            m1 == [m EXCEPT !.searches = @ + 1,
                            !.failures = @ + (IF BackendSearched(m) /\ answer.raised
                                              THEN 1 ELSE 0)]
            items == [i \in DOMAIN vector_results |-> VectorItem(vector_results[i], m.clock)]
        IN  Return([m1 EXCEPT !.vector_items = items],
                   Returned(ContextResponse("vibecoding-mcp-vector", items, req.query)))

\* variant: the search runs whether or not the request has a query
VectorPathWithoutDelegation(m, answer) ==
    LET req == m.request
        vector_results == search(m.vector_db, m.documents, req.query,
                                 FilterCriteria(req), LimitOr(req.limit, 10), answer)
        m1 == [m EXCEPT !.searches = @ + 1,
                        !.failures = @ + (IF BackendSearched(m) /\ answer.raised
                                          THEN 1 ELSE 0)]
        items == [i \in DOMAIN vector_results |-> VectorItem(vector_results[i], m.clock)]
    IN  IF vector_results = <<>> THEN StartAggregation(m1, "fallback", req)
        ELSE IF TruthyDict(req.time_range)
                /\ "include_fresh" \in DOMAIN req.time_range
                /\ req.time_range["include_fresh"]
        THEN StartAggregation([m1 EXCEPT !.vector_items = items], "fresh", req)
        ELSE Return([m1 EXCEPT !.vector_items = items],
                    Returned(ContextResponse("vibecoding-mcp-vector", items, req.query)))

\* VectorContextService.get_context after the initialization (lines 48-115)
VectorPath(m, answer) ==
    LET req == m.request
    IN  IF ~TruthyStr(req.query) THEN StartAggregation(m, "delegate", req)
        ELSE
        LET vector_results == search(m.vector_db, m.documents, req.query,
                                     FilterCriteria(req), LimitOr(req.limit, 10), answer)
            m1 == [m EXCEPT !.searches = @ + 1,
                            !.failures = @ + (IF BackendSearched(m) /\ answer.raised
                                              THEN 1 ELSE 0)]
            items == [i \in DOMAIN vector_results |-> VectorItem(vector_results[i], m.clock)]
        IN  IF vector_results = <<>> THEN StartAggregation(m1, "fallback", req)
            ELSE IF TruthyDict(req.time_range)
                    /\ "include_fresh" \in DOMAIN req.time_range
                    /\ req.time_range["include_fresh"]
            THEN StartAggregation([m1 EXCEPT !.vector_items = items], "fresh", req)
            ELSE Return([m1 EXCEPT !.vector_items = items],
                        Returned(ContextResponse("vibecoding-mcp-vector", items, req.query)))

\* variant: get_context without the `if not self.initialized` bootstrap
GetContextWithoutBootstrap(m, answer) == VectorPath(m, answer)

\* VectorContextService.get_context (lines 42-46)
OrchestratorGetContext(m, answer) ==
    IF ~m.initialized
    THEN StartAggregation(m, "bootstrap", BootstrapRequest(30))
    ELSE VectorPath(m, answer)

\* variant: initialize without the `if self.initialized: return` guard
InitializeUnguarded(m, days_back) ==
    StartAggregation(m, "initialize", BootstrapRequest(days_back))

\* VectorContextService.initialize (lines 19-22)
OrchestratorInitialize(m, days_back) ==
    IF m.initialized THEN Return(m, ReturnedNone)
    ELSE StartAggregation(m, "initialize", BootstrapRequest(days_back))

\* variant: only the first listed source is checked
DeniedOnFirstSource(usr, req) ==
    /\ TruthyList(req.sources)
    /\ ~check_permission(usr, req.sources[1])

\* the permission loop of the handlers (main.py lines 78-84, 121-127)
Denied(usr, req) ==
    /\ TruthyList(req.sources)
    /\ \E i \in DOMAIN req.sources : ~check_permission(usr, req.sources[i])

\* the body of get_context / get_raw_context in main.py, to its first await
Handler(m, answer) ==
    IF Denied(m.user, m.request)
    THEN Raise(m, HTTPException(403, "permission"))
    ELSE IF m.request.query # None
    THEN OrchestratorGetContext(m, answer)
    ELSE StartAggregation(m, "direct", m.request)

\* variant: initialize sets self.initialized before it calls add_items
AfterAggregationFlagFirst(m, outcome, answer) ==
    LET resp == AggregationResponse(m.areq, m.context_items)
        added == AddToStore(m, resp.context_items, outcome)
    IN  CASE m.frame = "direct" ->
               IF outcome = "raise" THEN Raise(added, Exception("vector backend"))
               ELSE Return(added, Returned(resp))
          [] m.frame \in {"delegate", "fallback"} ->
               Return(m, Returned(resp))
          [] m.frame = "fresh" ->
               Return(m, Returned(ContextResponse("vibecoding-mcp-vector",
                            MergeFresh(m.vector_items, ExistingIds(m.vector_items),
                                       resp.context_items),
                            m.request.query)))
          [] m.frame = "bootstrap" ->
               IF outcome = "raise"
               THEN Raise([added EXCEPT !.initialized = TRUE], Exception("vector backend"))
               ELSE VectorPath([added EXCEPT !.bootstraps = @ + 1, !.initialized = TRUE],
                               answer)
          [] m.frame = "initialize" ->
               IF outcome = "raise"
               THEN Raise([added EXCEPT !.initialized = TRUE], Exception("vector backend"))
               ELSE Return([added EXCEPT !.bootstraps = @ + 1, !.initialized = TRUE],
                           ReturnedNone)

\* variant: a fallback aggregation that found nothing is run again
AfterAggregationRetryingEmpty(m, outcome, answer) ==
    LET resp == AggregationResponse(m.areq, m.context_items)
        added == AddToStore(m, resp.context_items, outcome)
    IN  CASE m.frame = "direct" ->
               IF outcome = "raise" THEN Raise(added, Exception("vector backend"))
               ELSE Return(added, Returned(resp))
          [] m.frame = "delegate" ->
               Return(m, Returned(resp))
          [] m.frame = "fallback" ->
               IF resp.context_items = <<>>
               THEN [m EXCEPT !.cursor = NextEnabled(m.areq, 1), !.context_items = <<>>,
                              !.outcomes = <<>>]
               ELSE Return(m, Returned(resp))
          [] m.frame = "fresh" ->
               Return(m, Returned(ContextResponse("vibecoding-mcp-vector",
                            MergeFresh(m.vector_items, ExistingIds(m.vector_items),
                                       resp.context_items),
                            m.request.query)))
          [] m.frame = "bootstrap" ->
               IF outcome = "raise"
               THEN Raise(added, Exception("vector backend"))
               ELSE VectorPath([added EXCEPT !.bootstraps = @ + 1, !.initialized = TRUE],
                               answer)
          [] m.frame = "initialize" ->
               IF outcome = "raise"
               THEN Raise(added, Exception("vector backend"))
               ELSE Return([added EXCEPT !.bootstraps = @ + 1, !.initialized = TRUE],
                           ReturnedNone)

\* what follows the return of ContextService.get_context, by caller
AfterAggregation(m, outcome, answer) ==
    LET resp == AggregationResponse(m.areq, m.context_items)
        added == AddToStore(m, resp.context_items, outcome)
    IN  CASE m.frame = "direct" ->
               \* main.py: await vector_context_service.add_to_index(...)
               IF outcome = "raise" THEN Raise(added, Exception("vector backend"))
               ELSE Return(added, Returned(resp))
          [] m.frame \in {"delegate", "fallback"} ->
               Return(m, Returned(resp))
          [] m.frame = "fresh" ->
               Return(m, Returned(ContextResponse("vibecoding-mcp-vector",
                            MergeFresh(m.vector_items, ExistingIds(m.vector_items),
                                       resp.context_items),
                            m.request.query)))
          [] m.frame = "bootstrap" ->
               IF outcome = "raise"
               THEN Raise(added, Exception("vector backend"))
               ELSE VectorPath([added EXCEPT !.bootstraps = @ + 1, !.initialized = TRUE],
                               answer)
          [] m.frame = "initialize" ->
               IF outcome = "raise"
               THEN Raise(added, Exception("vector backend"))
               ELSE Return([added EXCEPT !.bootstraps = @ + 1, !.initialized = TRUE],
                           ReturnedNone)

\* what the backend call of add_items can do after this aggregation
AddOutcomes(m) ==
    IF m.frame \in {"direct", "bootstrap", "initialize"} /\ m.failures < MaxFailures
    THEN {"ok", "raise"}
    ELSE {"ok"}

-----------------------------------------------------------------------------
(* The calls the model makes                                               *)

Queries == {None, "", "q"}
SourceLists == {NoneList, <<"zoom">>, <<"zoom", "slack">>, <<"slack", "gmail">>}
TimeRanges == {EmptyDict, [include_fresh |-> TRUE]}
Limits == 1..MaxLimit

\* include_fresh is read only on the vector path, which needs a query
Requests ==
    {r \in {ContextRequest(q, t, s, l, EmptyDict) :
               q \in Queries, t \in TimeRanges, s \in SourceLists, l \in Limits} :
        TruthyDict(r.time_range) => TruthyStr(r.query)}

\* a request without query that names a Salesforce account to focus on
FocusedRequests ==
    {ContextRequest(None, EmptyDict, <<"salesforce">>, 1, [account_id |-> "A2"])}

\* requests without limit that widen the window: the Zoom meetings of the
\* last 60 days, and the meetings and opportunities of the last 30 days
\* that mention "q"
WideWindowRequests ==
    {ContextRequest(None, [days_back |-> 60], <<"zoom">>, 0, EmptyDict),
     ContextRequest("q", [days_back |-> 30], <<"zoom", "salesforce">>, 0, EmptyDict)}

\* admin and sales hold the same permissions on the four sources; they
\* differ only on a source that is not in USERS_DB
HttpCalls ==
    {c \in [user : DOMAIN USERS_DB,
            request : Requests \cup FocusedRequests \cup WideWindowRequests] :
        c.user = "admin" => \E i \in DOMAIN c.request.sources :
                                c.request.sources[i] \notin Range(AllSources) \cup {"None"}}

\* the requests of the direct service calls
ServiceRequests ==
    {ContextRequest(q, EmptyDict, NoneList, 1, EmptyDict) : q \in {None, "q"}}

\* a new call may begin: one at a time, or whenever its slot is free
Admitted(p, concurrent) ==
    /\ calls < MaxCalls
    /\ pc[p] = "idle"
    /\ concurrent \/ \A q \in Procs : pc[q] = "idle"

-----------------------------------------------------------------------------
(* Actions                                                                 *)

\* POST /context
PostContext(p) ==
    /\ Admitted(p, FALSE)
    /\ \E c \in HttpCalls :
          LET m == Entering(p, "http", c.user, c.request)
          IN  \E answer \in (IF m.initialized /\ ~Denied(m.user, m.request)
                             THEN AnswersFor(m) ELSE {NoAnswer}) :
                 Apply(p, Handler(m, answer))
    /\ calls' = calls + 1

\* POST /raw-context: the same body, on a ContextRequest built from the JSON
PostRawContext(p) ==
    /\ Admitted(p, FALSE)
    /\ \E c \in HttpCalls :
          LET m == Entering(p, "http", c.user, c.request)
          IN  \E answer \in (IF m.initialized /\ ~Denied(m.user, m.request)
                             THEN AnswersFor(m) ELSE {NoAnswer}) :
                 Apply(p, Handler(m, answer))
    /\ calls' = calls + 1

\* VectorContextService.initialize(days_back), called directly
CallInitialize(p, concurrent) ==
    /\ Admitted(p, concurrent)
    /\ \E days_back \in {7, 30} :
          Apply(p, OrchestratorInitialize(
                      Entering(p, "initialize", None, BootstrapRequest(days_back)), days_back))
    /\ calls' = calls + 1

\* VectorContextService.get_context(request), called directly
CallGetContext(p, concurrent) ==
    /\ Admitted(p, concurrent)
    /\ \E req \in ServiceRequests :
          LET m == Entering(p, "get_context", None, req)
          IN  \E answer \in (IF m.initialized THEN AnswersFor(m) ELSE {NoAnswer}) :
                 Apply(p, OrchestratorGetContext(m, answer))
    /\ calls' = calls + 1

\* how far datetime.now() has moved on when the next batch is stamped: the
\* batches of one aggregation are a whole tick apart, or all within one tick
Pace(m) ==
    IF m.outcomes = <<>> THEN {0}
    ELSE IF Len(m.outcomes) = 1 THEN {0, 1}
    ELSE {m.outcomes[2].now - m.outcomes[1].now}

\* the awaited adapter call of the current source returns or raises
AdapterReturn(p) ==
    /\ pc[p] = "aggregating"
    /\ cursor[p] <= Len(AllSources)
    /\ LET m == Machine(p)
           source == AllSources[m.cursor]
       IN  \E outcome \in FetchOutcomes(source), tick \in Pace(m) :
              /\ outcome # "ok" => failures < MaxFailures
              /\ Apply(p, [m EXCEPT
                    !.context_items =
                        @ \o SourceContext(source, m.areq, outcome, m.clock + tick),
                    !.cursor = NextEnabled(m.areq, m.cursor + 1),
                    !.clock = @ + tick,
                    !.fetches = [@ EXCEPT ![source] = @ + 1],
                    !.outcomes = Append(@, [source |-> source, outcome |-> outcome,
                                            now |-> m.clock + tick]),
                    !.failures = @ + (IF outcome = "ok" THEN 0 ELSE 1)])
    /\ UNCHANGED calls

\* ContextService.get_context sorts, truncates and returns to its caller,
\* which runs on to its next await or to its return
AggregationReturn(p) ==
    /\ pc[p] = "aggregating"
    /\ cursor[p] > Len(AllSources)
    /\ LET m == Machine(p)
       IN  \E outcome \in AddOutcomes(m) :
              \E answer \in (IF m.frame = "bootstrap" /\ outcome = "ok"
                             THEN AnswersFor(AddToStore(m, AggregationResponse(
                                        m.areq, m.context_items).context_items, outcome))
                             ELSE {NoAnswer}) :
                 Apply(p, AfterAggregation(m, outcome, answer))
    /\ UNCHANGED calls

\* the caller has its response (or exception): the call is over
Complete(p) ==
    /\ pc[p] = "done"
    /\ Apply(p, Entering(p, "none", None, NoRequest))
    /\ UNCHANGED calls

Next ==
    \E p \in {1} :
        \/ PostContext(p)
        \/ PostRawContext(p)
        \/ CallInitialize(p, FALSE)
        \/ CallGetContext(p, FALSE)
        \/ AdapterReturn(p)
        \/ AggregationReturn(p)
        \/ Complete(p)

Spec == Init /\ [][Next]_vars

\* every awaited adapter call returns or raises, and so does every call of
\* the vector backend: a call that waits for one is eventually resumed.
\* This is weak fairness of the two returns, written out: one of them is
\* enabled exactly when pc[p] = "aggregating".
AwaitsReturn ==
    \A p \in Procs :
        \/ []<>(pc[p] # "aggregating")
        \/ []<><<AdapterReturn(p) \/ AggregationReturn(p)>>_vars

SpecLive == Init /\ [][Next]_vars /\ AwaitsReturn

NextConcurrent ==
    \E p \in Procs :
        \/ CallGetContext(p, TRUE)
        \/ CallInitialize(p, TRUE)
        \/ AdapterReturn(p)
        \/ AggregationReturn(p)
        \/ Complete(p)

SpecConcurrent == Init /\ [][NextConcurrent]_vars

-----------------------------------------------------------------------------
(* The VectorStore on its own: add_items and search called directly        *)

\* item.dict() of a meeting, of an email of two chunks, of a page without text
StoreItems ==
    [meeting |-> MeetingContext(ZoomTranscripts[1], 1),
     email   |-> EmailContext(GmailEmails[1], 1),
     blank   |-> DocumentContext(NotionPages[2], 1)]

\* the lists add_items is called with
StoreItemLists ==
    { <<>>, <<StoreItems.blank>>, <<StoreItems.meeting>>,
      <<StoreItems.blank, StoreItems.email>> }

\* the filter_criteria search is called with
StoreFilters == {EmptyDict, [source |-> "zoom"], [source |-> "gmail"]}

\* vector_store.add_items(items)
StoreAddItems ==
    /\ Len(store_log) < MaxCalls
    /\ \E items \in StoreItemLists, outcome \in {"ok", "raise"} :
          LET a == add_items(vector_db, documents, items, outcome)
          IN  /\ vector_db' = a.vector_db
              /\ documents' = a.documents
              /\ store_log' = Append(store_log,
                                     [items |-> items, raised |-> a.raised,
                                      vector_db |-> vector_db, documents |-> documents])
              /\ store_found' = NotSearched
    /\ UNCHANGED <<initialized, local, calls, failures, bootstraps>>

\* vector_store.search(query, filter_criteria, limit)
StoreSearch ==
    /\ \E fc \in StoreFilters, limit \in Limits :
          LET reached == vector_db.built /\ BagToSet(documents) # {}
              answers == IF reached
                         THEN SimilarityAnswers(vector_db.chunks, FilterDict(fc), limit)
                         ELSE {NoAnswer}
          IN  \E answer \in answers :
                 store_found' =
                    [op |-> "search", query |-> "q", filter_criteria |-> fc,
                     limit |-> limit, answer |-> answer,
                     results |-> search(vector_db, documents, "q", fc, limit, answer)]
    /\ UNCHANGED <<store, local, calls, failures, bootstraps, store_log>>

NextStore == StoreAddItems \/ StoreSearch

SpecStore == Init /\ [][NextStore]_vars

-----------------------------------------------------------------------------
(* Properties                                                              *)

\* a call has returned to its caller
Done(p) == pc[p] = "done"

\* the call was answered with a ContextResponse
Answered(p) == Done(p) /\ response[p].kind = "response"

\* the request lists a source for which check_permission returns false
ListsDisallowedSource(usr, req) ==
    /\ req.sources # NoneList
    /\ \E i \in DOMAIN req.sources : ~check_permission(usr, req.sources[i])

\* the items of the running aggregation that came from one source
ItemsFrom(p, source) == SelectSeq(context_items[p], LAMBDA item : item.source = source)

\* C1: a response to a request with a positive limit holds at most `limit`
\* context_items, on every path of the aggregator and of the orchestrator.
C1_LimitBoundsResponse ==
    \A p \in Procs :
        (Answered(p) /\ request[p].limit > 0)
            => Len(response[p].context_items) <= request[p].limit

FanOutIndex(source) == CHOOSE k \in DOMAIN AllSources : AllSources[k] = source

\* x comes before y in a list sorted newest first that keeps arrival order
\* (the position in `arrived`) between equal keys
Precedes(x, y, arrived) ==
    LET pos(z) == CHOOSE k \in DOMAIN arrived : arrived[k] = z
    IN  \/ TimestampKey(x) > TimestampKey(y)
        \/ TimestampKey(x) = TimestampKey(y) /\ pos(x) < pos(y)

\* C3: the context_items the aggregator returns are ordered by timestamp,
\* newest first, an item without timestamp counting as the oldest; items
\* with equal timestamps keep the order of arrival, which is the fan-out
\* order zoom, gmail, notion, salesforce.
C3_NewestFirstStable ==
    \A p \in Procs :
        (Answered(p) /\ response[p].source = "vibecoding-mcp")
            => LET sorted == response[p].context_items
                   arrived == context_items[p]
               IN  /\ \A i, j \in DOMAIN arrived :
                         i < j => FanOutIndex(arrived[i].source)
                                     <= FanOutIndex(arrived[j].source)
                   /\ \A i \in DOMAIN sorted : sorted[i] \in Range(arrived)
                   /\ \A i, j \in DOMAIN sorted :
                         i < j => Precedes(sorted[i], sorted[j], arrived)
                   /\ \A x \in Range(arrived) \ Range(sorted) :
                         \A i \in DOMAIN sorted : Precedes(sorted[i], x, arrived)
                   /\ Len(sorted) = IF areq[p].limit = 0 THEN Len(arrived)
                                    ELSE Min(Len(arrived), areq[p].limit)

\* no source failed, two sources delivered items with the same timestamp,
\* and the response holds them in fan-out order
C3_Witness ==
    \E p \in Procs :
        /\ Answered(p) /\ response[p].source = "vibecoding-mcp"
        /\ \A i \in DOMAIN outcomes[p] : outcomes[p][i].outcome = "ok"
        /\ \E i, j \in DOMAIN response[p].context_items :
              LET x == response[p].context_items[i]
                  y == response[p].context_items[j]
              IN  /\ i < j
                  /\ x.timestamp = y.timestamp
                  /\ FanOutIndex(x.source) < FanOutIndex(y.source)

\* C4: when the vector search of a request with a query yields nothing, the
\* orchestrator returns what the aggregator returns for the same request:
\* tag "vibecoding-mcp", the same items in the same order, the same query;
\* the miss never becomes an error.
C4_FallbackEqualsAggregation ==
    \A p \in Procs :
        (Done(p) /\ TruthyStr(request[p].query) /\ searches[p] > 0
                 /\ vector_items[p] = <<>>)
            => /\ areq[p] = request[p]
               /\ response[p] = Returned(AggregationResponse(request[p], context_items[p]))
               /\ response[p].source = "vibecoding-mcp"
               /\ response[p].query = request[p].query

\* the search of an initialized orchestrator found nothing and the call was
\* answered with the aggregator's items
C4_Witness ==
    \E p \in Procs :
        /\ Answered(p) /\ TruthyStr(request[p].query)
        /\ searches[p] > 0 /\ vector_items[p] = <<>>
        /\ frame[p] = "fallback"
        /\ response[p].context_items # <<>>

\* C5: the items of a response that comes from the aggregator (no query,
\* empty query, fallback) were passed to add_items before the response was
\* returned.
C5_AggregatedResponseIndexed ==
    \A p \in Procs :
        (Answered(p) /\ response[p].source = "vibecoding-mcp")
            => \E i \in DOMAIN indexed[p] : indexed[p][i] = response[p].context_items

\* C6: a /context or /raw-context request that lists a disallowed source
\* ends with HTTP 403 and no other outcome.
C6_DisallowedSourceForbidden ==
    \A p \in Procs :
        (Done(p) /\ entry[p] = "http" /\ ListsDisallowedSource(user[p], request[p]))
            => response[p].kind = "http_error" /\ response[p].status = 403

\* C7: a request that lists a disallowed source, at whatever position, ends
\* in the step that began it: no adapter is invoked, no search and no
\* add_items is performed, and initialized, the index and the tracking list
\* are as before.
C7_PermissionBeforeAggregation ==
    [][\A p \in Procs :
          (entry'[p] = "http" /\ ListsDisallowedSource(user'[p], request'[p]))
              => /\ pc'[p] = "done"
                 /\ fetches'[p] = NoFetches
                 /\ searches'[p] = 0
                 /\ indexed'[p] = <<>>
                 /\ outcomes'[p] = <<>>
                 /\ pc[p] = "idle" => UNCHANGED <<initialized, vector_db, documents>>]_vars

\* a request whose second listed source is the disallowed one has ended
C7_Witness ==
    \E p \in Procs :
        /\ Done(p) /\ entry[p] = "http"
        /\ Len(request[p].sources) = 2
        /\ check_permission(user[p], request[p].sources[1])
        /\ ~check_permission(user[p], request[p].sources[2])

\* C8: an authenticated request that passes the permission checks gets a
\* success response with a context_items list, whatever adapters and the
\* vector backend do.
C8_AuthorizedRequestSucceeds ==
    \A p \in Procs :
        (Done(p) /\ entry[p] = "http" /\ ~ListsDisallowedSource(user[p], request[p]))
            => response[p].kind = "response" /\ response[p].status = 200

\* C9: initialize on an initialized orchestrator returns in the step that
\* began it: no adapter is invoked, nothing is added to the index, and
\* initialized stays true, for every days_back.
C9_InitializeIdempotent ==
    [][\A p \in Procs :
          (pc[p] = "idle" /\ pc'[p] # "idle" /\ entry'[p] = "initialize" /\ initialized)
              => /\ pc'[p] = "done"
                 /\ response'[p] = ReturnedNone
                 /\ fetches'[p] = NoFetches
                 /\ indexed'[p] = <<>>
                 /\ initialized'
                 /\ UNCHANGED <<vector_db, documents>>]_vars

\* initialize has returned without a fetch: the orchestrator it was called
\* on had been bootstrapped before
C9_Witness ==
    \E p \in Procs :
        /\ Done(p) /\ entry[p] = "initialize"
        /\ response[p] = ReturnedNone
        /\ fetches[p] = NoFetches
        /\ initialized /\ bootstraps = 1

\* C10: whatever the interleaving of concurrent get_context and initialize
\* calls on an uninitialized orchestrator, the bootstrap is completed at
\* most once.
C10_BootstrapAtMostOnce == bootstraps <= 1

\* how often a result occurs in a list of search results
TimesFound(results, r) == Cardinality({i \in DOMAIN results : results[i] = r})

\* C11: after two add_items calls with the same item list, no search
\* returns a chunk more often than that list holds it, for every filter and
\* limit.
C11_RepeatedAddNoDuplicates ==
    (/\ store_found.op = "search"
     /\ Len(store_log) = 2
     /\ store_log[1].items = store_log[2].items
     /\ ~store_log[1].raised /\ ~store_log[2].raised)
        => \A i \in DOMAIN store_found.results :
              LET r == store_found.results[i]
              IN  TimesFound(store_found.results, r)
                     <= CopiesIn(r.metadata, SeqToBag(NewDocuments(store_log[1].items)))

\* the vector-derived item v is a chunk of the record the fresh item f was
\* built from
ChunkOfRecord(v, f) ==
    /\ v.vector /\ ~f.vector
    /\ v.source = f.source /\ v.type = f.type
    /\ v.content \in Range(split_text(f.content))

\* C12: in a response merged from vector hits and fresh items, no two fresh
\* items share a natural id, every vector-derived item precedes every fresh
\* item, and no fresh item stands for a record that a vector-derived item of
\* the list already stands for.
C12_MergeDeduplicates ==
    \A p \in Procs :
        (Answered(p) /\ frame[p] = "fresh")
            => LET merged == response[p].context_items
               IN  \A i, j \in DOMAIN merged :
                      /\ (i < j /\ ~merged[i].vector /\ ~merged[j].vector)
                            => merged[i].nid # merged[j].nid
                      /\ (merged[i].vector /\ ~merged[j].vector)
                            => i < j /\ ~ChunkOfRecord(merged[i], merged[j])

\* the call reached the orchestrator with a request whose query is absent
\* (or, through a handler, present but empty)
ReachedWithoutQuery(p) ==
    \/ entry[p] = "get_context" /\ request[p].query = None
    \/ entry[p] = "http" /\ request[p].query = ""
          /\ ~ListsDisallowedSource(user[p], request[p])

\* C13: for a request without query the orchestrator, once initialized,
\* makes no vector search, rebuilds no item from the index, and returns
\* exactly the response of the aggregator for that request.
C13_NoQueryDelegates ==
    \A p \in Procs :
        (Done(p) /\ ReachedWithoutQuery(p) /\ initialized)
            => /\ searches[p] = 0
               /\ vector_items[p] = <<>>
               /\ areq[p] = request[p]
               /\ response[p] = Returned(AggregationResponse(request[p], context_items[p]))

\* get_context of the orchestrator, called without query, has returned the
\* aggregator's items
C13_Witness ==
    \E p \in Procs :
        /\ Answered(p) /\ entry[p] = "get_context" /\ request[p].query = None
        /\ initialized /\ frame[p] = "delegate"
        /\ searches[p] = 0
        /\ response[p].context_items # <<>>

\* C14: the filter handed to the similarity search of a request is
\* {source: s} when the request lists exactly one source s, and no filter
\* when it lists none or several.
C14_FilterOnlyForSingleSource ==
    \A p \in Procs :
        (Done(p) /\ searches[p] > 0 /\ vector_db.built /\ BagToSet(documents) # {})
            => LET sources == request[p].sources
                   single == sources # NoneList /\ Len(sources) = 1
                   applied == FilterDict(FilterCriteria(request[p]))
               IN  /\ DOMAIN applied = IF single THEN {"source"} ELSE {}
                   /\ single => applied.source = sources[1]

\* C15, on the Zoom pipeline: a transcript that cannot be normalized (its
\* start_time is not a date) is skipped alone; every other transcript of
\* the batch that passes the query test is returned as an item.
C15_BadRecordSkippedAlone ==
    \A p \in Procs :
        \A i \in DOMAIN outcomes[p] :
            LET o == outcomes[p][i]
                batch == get_recent_meeting_transcripts(DaysBack(areq[p]),
                                                        LimitOr(areq[p].limit, 5))
                wanted == SelectSeq(batch, LAMBDA t :
                             /\ t.start_time # "malformed"
                             /\ TruthyStr(areq[p].query)
                                   => ContainsIgnoreCase(t.transcript, areq[p].query))
            IN  (o.source = "zoom" /\ o.outcome = "ok")
                   => ItemsFrom(p, "zoom")
                         = [k \in DOMAIN wanted |-> MeetingContext(wanted[k], o.now)]

\* the items of one type that the Salesforce pipeline of call p produced
SalesforceItems(p, type) ==
    SelectSeq(ItemsFrom(p, "salesforce"), LAMBDA item : item.type = type)

\* C16: for a request without query whose entity_focus names account A, the
\* Salesforce pipeline (its adapter calls succeeding) yields exactly one
\* account item, whose account_id is A, at most `limit` contact items and
\* no opportunity item, and fetches no opportunities.
C16_FocusReturnsNamedAccount ==
    \A p \in Procs :
        (/\ Answered(p) /\ frame[p] \in {"direct", "delegate"}
         /\ ~TruthyStr(request[p].query)
         /\ "account_id" \in DOMAIN request[p].entity_focus
         /\ \E i \in DOMAIN outcomes[p] :
               outcomes[p][i].source = "salesforce" /\ outcomes[p][i].outcome = "ok")
            => LET accounts == SalesforceItems(p, "account")
               IN  /\ Len(accounts) = 1
                   /\ accounts[1].attr = "account_id"
                   /\ accounts[1].nid = request[p].entity_focus["account_id"]
                   /\ Len(SalesforceItems(p, "contact")) <= LimitOr(request[p].limit, 5)
                   /\ SalesforceItems(p, "opportunity") = <<>>

\* C17: while one request is handled, the fetch of each source is invoked
\* at most once, whatever the request and whatever the state of the
\* orchestrator when it arrives.
C17_FetchAtMostOncePerRequest ==
    \A p \in Procs :
        \A source \in Range(AllSources) : fetches[p][source] <= 1

\* C18: search returns the empty list when the index was never constructed,
\* when no document is tracked, or when the similarity query fails;
\* otherwise it returns at most `limit` results, each with content,
\* metadata and score, in the order in which the backend ranked them.
C18_SearchTotalAndRanked ==
    store_found.op = "search"
        => LET results == store_found.results
               answer == store_found.answer
           IN  IF ~vector_db.built \/ BagToSet(documents) = {} \/ answer.raised
               THEN results = <<>>
               ELSE /\ Len(results) <= store_found.limit
                    /\ Len(results) = Len(answer.results)
                    /\ \A i \in DOMAIN results :
                          /\ DOMAIN results[i] = {"content", "metadata", "score"}
                          /\ results[i].metadata = answer.results[i]
                          /\ results[i].content = answer.results[i].page_content

\* a search on a constructed index has returned two different chunks
C18_Witness ==
    /\ store_found.op = "search"
    /\ vector_db.built
    /\ Len(store_found.results) = 2
    /\ store_found.results[1] # store_found.results[2]

\* a search on a constructed index whose similarity query failed
C18_WitnessFailedQuery ==
    /\ store_found.op = "search"
    /\ vector_db.built /\ BagToSet(documents) # {}
    /\ store_found.answer.raised

\* two collections of chunks hold the same chunks, each as often
SameChunks(a, b) ==
    \A c \in BagToSet(a) \cup BagToSet(b) : CopiesIn(c, a) = CopiesIn(c, b)

\* C19: an add_items call whose list is empty, or holds only items without
\* content, raises nothing and leaves the index as it was, constructed or
\* not; a call with a mixed list tracks the chunks of its items with
\* content and nothing else.
C19_EmptyAddIsNoOp ==
    store_log # <<>>
        => LET last == store_log[Len(store_log)]
               blank == \A i \in DOMAIN last.items : ~TruthyStr(last.items[i].content)
               filled == SelectSeq(last.items, LAMBDA item : TruthyStr(item.content))
           IN  /\ blank => /\ ~last.raised
                           /\ vector_db.built = last.vector_db.built
                           /\ SameChunks(vector_db.chunks, last.vector_db.chunks)
                           /\ SameChunks(documents, last.documents)
               /\ SameChunks(documents,
                             last.documents (+) SeqToBag(NewDocuments(filled)))

\* C20: after every add_items call, whether its backend call succeeded or
\* failed, the documents list tracks exactly the chunks the index holds.
C20_DocumentsMirrorIndex ==
    SameChunks(documents, vector_db.chunks)

\* the store differs between the two states of a step
StoreChanged ==
    \/ vector_db'.built # vector_db.built
    \/ ~SameChunks(vector_db'.chunks, vector_db.chunks)
    \/ ~SameChunks(documents', documents)

\* the step applies one whole add_items call of p: all chunks of its items
\* are tracked, and the index took all of them or (the backend call having
\* raised) none
WholeAddBy(p) ==
    /\ Len(indexed'[p]) = Len(indexed[p]) + 1
    /\ LET new == SeqToBag(NewDocuments(indexed'[p][Len(indexed'[p])]))
       IN  /\ SameChunks(documents', documents (+) new)
           /\ \/ /\ vector_db'.built
                 /\ SameChunks(vector_db'.chunks, vector_db.chunks (+) new)
              \/ /\ vector_db'.built = vector_db.built
                 /\ SameChunks(vector_db'.chunks, vector_db.chunks)

\* every hit that the search of this step gave to p is a chunk of the index
\* as the step leaves it
SearchSeesIndex(p) ==
    (searches'[p] > searches[p])
        => \A i \in DOMAIN vector_items'[p] :
              \E c \in BagToSet(vector_db'.chunks) :
                 /\ c.page_content = vector_items'[p][i].content
                 /\ c.source = vector_items'[p][i].source
                 /\ c.type = vector_items'[p][i].type

\* C21: with concurrent calls interleaving at their awaits, every step that
\* changes the store is one whole add_items call of one call, on top of all
\* the chunks stored before it, and every search sees an index on which no
\* add_items is half applied.
C21_StoreStepsAreWholeAdds ==
    [][ /\ StoreChanged => \E p \in Procs :
                              /\ WholeAddBy(p)
                              /\ \A q \in Procs \ {p} : indexed'[q] = indexed[q]
        /\ \A p \in Procs : SearchSeesIndex(p) ]_vars

\* two calls in flight at the same time have both added items to the
\* index, and one of them has searched it since
C21_Witness ==
    \E p, q \in Procs :
        /\ p # q
        /\ indexed[p] # <<>> /\ indexed[q] # <<>>
        /\ indexed[p][1] # <<>> /\ indexed[q][1] # <<>>
        /\ searches[q] > 0 /\ vector_items[q] # <<>>

\* the (type, source) pairs of the concrete item types of schemas.py
TypeSourcePairs ==
    { <<"email", "gmail">>, <<"meeting", "zoom">>, <<"document", "notion">>,
      <<"opportunity", "salesforce">>, <<"account", "salesforce">>,
      <<"contact", "salesforce">> }

\* C22: every item of every response, built by a source pipeline or rebuilt
\* from a search hit, carries one of the six consistent (type, source)
\* pairs.
C22_TypeMatchesSource ==
    \A p \in Procs :
        Answered(p)
            => \A i \in DOMAIN response[p].context_items :
                  LET item == response[p].context_items[i]
                  IN  <<item.type, item.source>> \in TypeSourcePairs

\* a response holds an item rebuilt from a search hit next to an item
\* built by a source pipeline
C22_Witness ==
    \E p \in Procs :
        /\ Answered(p)
        /\ \E i, j \in DOMAIN response[p].context_items :
              /\ response[p].context_items[i].vector
              /\ ~response[p].context_items[j].vector

\* C23: in a response merged from search hits and a fresh aggregation,
\* every opportunity, account and contact item that the fresh aggregation
\* returned is present.
C23_FreshCrmItemsKept ==
    \A p \in Procs :
        (Answered(p) /\ frame[p] = "fresh")
            => LET fresh == AggregationResponse(areq[p], context_items[p]).context_items
               IN  \A i \in DOMAIN fresh :
                      fresh[i].type \in {"opportunity", "account", "contact"}
                         => \E j \in DOMAIN response[p].context_items :
                               response[p].context_items[j] = fresh[i]

\* in this step call p enters get_context of the orchestrator
EntersOrchestrator(p) ==
    /\ pc[p] = "idle" /\ entry[p] = "none"
    /\ \/ entry'[p] = "get_context"
       \/ /\ entry'[p] = "http"
          /\ request'[p].query # None
          /\ ~ListsDisallowedSource(user'[p], request'[p])

\* in this step the bootstrap aggregation of call p returns to initialize
BootstrapAggregated(p) ==
    pc[p] = "aggregating" /\ frame[p] = "bootstrap" /\ cursor[p] > Len(AllSources)

\* C24: a get_context call of the orchestrator that starts uninitialized
\* first runs the bootstrap aggregation (all four sources, each fetched
\* once, days_back 30, limit 100) and adds its items to the index, before
\* any search or aggregation for the request itself; when the call has a
\* response, the orchestrator is initialized.
C24_BootstrapFirst ==
    [][ \A p \in Procs :
          /\ (EntersOrchestrator(p) /\ ~initialized)
                => /\ pc'[p] = "aggregating" /\ frame'[p] = "bootstrap"
                   /\ areq'[p] = ContextRequest(None, [days_back |-> 30],
                                                <<"zoom", "gmail", "notion", "salesforce">>,
                                                100, EmptyDict)
                   /\ searches'[p] = 0 /\ indexed'[p] = <<>>
          /\ BootstrapAggregated(p)
                => /\ \A source \in Range(AllSources) : fetches[p][source] = 1
                   /\ searches[p] = 0
                   /\ indexed'[p] = << ApplyLimit(SortByTimestamp(context_items[p]), 100) >>
                   /\ \/ initialized'
                      \/ ~initialized' /\ pc'[p] = "done"
                            /\ response'[p].kind \in {"exception", "http_error"}
          /\ (entry'[p] \in {"get_context", "http"} /\ request'[p].query # None
              /\ (searches'[p] > 0 \/ frame'[p] \in {"delegate", "fallback", "fresh"}
                  \/ response'[p].kind = "response"))
                => initialized' ]_vars

\* a call that began on an uninitialized orchestrator has bootstrapped,
\* searched the index and been answered
C24_Witness ==
    \E p \in Procs :
        /\ Answered(p) /\ entry[p] \in {"get_context", "http"}
        /\ indexed[p] # <<>> /\ indexed[p][1] # <<>>
        /\ searches[p] = 1 /\ fetches[p]["salesforce"] >= 1
        /\ initialized

\* C25: every response carries the query of its request unchanged; its
\* source is "vibecoding-mcp-vector" exactly when the search of the call
\* returned hits, and "vibecoding-mcp" exactly when the response is the
\* aggregator's (no query, no search, or a search without hits).
C25_ResponseEchoesQueryAndPath ==
    \A p \in Procs :
        Answered(p)
            => /\ response[p].query = request[p].query
               /\ response[p].source \in {"vibecoding-mcp", "vibecoding-mcp-vector"}
               /\ response[p].source = "vibecoding-mcp-vector" <=> vector_items[p] # <<>>
               /\ response[p].source = "vibecoding-mcp"
                     <=> frame[p] \in {"direct", "delegate", "fallback"}
               /\ frame[p] = "fallback" => searches[p] = 1 /\ TruthyStr(request[p].query)
               /\ frame[p] \in {"direct", "delegate"} => ~TruthyStr(request[p].query)

\* a request with a query was answered by the aggregator after a search
\* without hits
C25_Witness ==
    \E p \in Procs :
        /\ Answered(p) /\ frame[p] = "fallback"
        /\ request[p].query = "q"
        /\ response[p].source = "vibecoding-mcp"
        /\ response[p].context_items # <<>>

\* the sources whose adapters the running aggregation of p has invoked
Invoked(p) == {outcomes[p][i].source : i \in DOMAIN outcomes[p]}

\* C26: the aggregation run for a request that lists sources invokes the
\* adapters of listed sources only, and every item of the response to such
\* a request, from the aggregator or from the index, with one source listed
\* or several, has a listed source; for a request without sources the
\* aggregation invokes all four adapters.
C26_OnlyListedSources ==
    \A p \in Procs :
        LET listed == TruthyList(request[p].sources)
            own == frame[p] \in {"direct", "delegate", "fallback", "fresh"}
        IN  /\ (own /\ listed) => Invoked(p) \subseteq Range(request[p].sources)
            /\ (Answered(p) /\ listed)
                  => \A i \in DOMAIN response[p].context_items :
                        response[p].context_items[i].source \in Range(request[p].sources)
            /\ (Done(p) /\ own /\ ~listed)
                  => Invoked(p) = {"zoom", "gmail", "notion", "salesforce"}

\* a request listing only zoom was answered from an index that also holds
\* chunks of other sources
C26_Witness ==
    \E p \in Procs :
        /\ Answered(p) /\ request[p].sources = <<"zoom">>
        /\ vector_items[p] # <<>>
        /\ \E c \in BagToSet(vector_db.chunks) : c.source # "zoom"

\* the adapter call of `source` in the running aggregation of p returned
Fetched(p, source) ==
    \E i \in DOMAIN outcomes[p] :
        outcomes[p][i].source = source /\ outcomes[p][i].outcome = "ok"

\* the record passes the query test of the pipelines
Mentions(text, query) == TruthyStr(query) => ContainsIgnoreCase(text, query)

\* C27: in an aggregation the meeting items are those of the fetched
\* transcripts whose text contains the query, and the opportunity items
\* those of the fetched opportunities whose name contains it, compared
\* without regard to case: none that does not contain it is returned and
\* none that contains it is left out (a batch lost to a malformed record
\* aside); without a query every fetched record is returned.
C27_QueryFilterIsSubstringTest ==
    \A p \in Procs :
        LET query == areq[p].query
            transcripts == get_recent_meeting_transcripts(DaysBack(areq[p]),
                                                          LimitOr(areq[p].limit, 5))
            opportunities == get_opportunities(DaysBack(areq[p]), LimitOr(areq[p].limit, 5))
            meetings == ItemsFrom(p, "zoom")
            opps == SalesforceItems(p, "opportunity")
        IN  /\ Fetched(p, "zoom")
                 => /\ \A i \in DOMAIN meetings :
                          \E k \in DOMAIN transcripts :
                             /\ transcripts[k].meeting_id = meetings[i].nid
                             /\ Mentions(transcripts[k].transcript, query)
                    /\ (\A k \in DOMAIN transcripts : transcripts[k].start_time # "malformed")
                          => \A k \in DOMAIN transcripts :
                                Mentions(transcripts[k].transcript, query)
                                   => \E i \in DOMAIN meetings :
                                         meetings[i].nid = transcripts[k].meeting_id
            /\ (Fetched(p, "salesforce") /\ "account_id" \notin DOMAIN areq[p].entity_focus)
                 => /\ \A i \in DOMAIN opps :
                          \E k \in DOMAIN opportunities :
                             /\ opportunities[k].Id = opps[i].nid
                             /\ Mentions(opportunities[k].Name, query)
                    /\ \A k \in DOMAIN opportunities :
                          Mentions(opportunities[k].Name, query)
                             => \E i \in DOMAIN opps : opps[i].nid = opportunities[k].Id

\* an aggregation with a query has kept the meeting and the opportunity
\* that mention it in another case and left out those that do not
C27_Witness ==
    \E p \in Procs :
        /\ Done(p) /\ areq[p].query = "q" /\ DaysBack(areq[p]) = 30
        /\ Fetched(p, "zoom") /\ Fetched(p, "salesforce")
        /\ Len(ItemsFrom(p, "zoom")) = 1 /\ ItemsFrom(p, "zoom")[1].content = "Qx"
        /\ Len(SalesforceItems(p, "opportunity")) = 1

C28_WitnessFromIndex ==
    \E p \in Procs :
        /\ Answered(p) /\ entry[p] = "http" /\ user[p] = "sales"
        /\ response[p].source = "vibecoding-mcp-vector"
        /\ \E i \in DOMAIN response[p].context_items :
              response[p].context_items[i].vector

\* in this step the add_items call of the bootstrap of p takes all its
\* chunks into the index
BootstrapAddCompletes(p) ==
    /\ pc[p] = "aggregating" /\ frame[p] \in {"bootstrap", "initialize"}
    /\ cursor[p] > Len(AllSources)
    /\ WholeAddBy(p)
    /\ vector_db'.built
    /\ SameChunks(vector_db'.chunks,
                  vector_db.chunks (+) SeqToBag(NewDocuments(indexed'[p][Len(indexed'[p])])))

\* in this step the bootstrap of p ends with an exception
BootstrapRaises(p) ==
    /\ pc[p] = "aggregating" /\ frame[p] \in {"bootstrap", "initialize"}
    /\ pc'[p] = "done" /\ response'[p].kind \in {"exception", "http_error"}

\* in this step a call enters initialize, directly or through get_context
EntersInitialize(p) ==
    EntersOrchestrator(p) \/ (pc[p] = "idle" /\ entry[p] = "none" /\ entry'[p] = "initialize")

\* C29: initialized never goes from true to false; it becomes true only in
\* the step in which the add_items call of a bootstrap completes; a
\* bootstrap that raises leaves it false, and a call that then finds it
\* false starts the bootstrap again.
C29_InitializedMonotonicAndTruthful ==
    [][ /\ initialized => initialized'
        /\ (~initialized /\ initialized') => \E p \in Procs : BootstrapAddCompletes(p)
        /\ \A p \in Procs :
              /\ (BootstrapRaises(p) /\ ~initialized) => ~initialized'
              /\ (EntersInitialize(p) /\ ~initialized)
                    => /\ pc'[p] = "aggregating"
                       /\ frame'[p] \in {"bootstrap", "initialize"}
                       /\ areq'[p].sources = AllSources ]_vars

\* the bootstrap of a call has raised in add_items and the orchestrator is
\* still uninitialized
C29_Witness ==
    \E p \in Procs :
        /\ Done(p) /\ frame[p] \in {"bootstrap", "initialize"}
        /\ response[p].kind \in {"exception", "http_error"}
        /\ indexed[p] # <<>> /\ indexed[p][1] # <<>>
        /\ ~initialized

\* after a bootstrap that raised, a later call has bootstrapped
C29_WitnessRetry ==
    /\ initialized /\ bootstraps = 1 /\ failures = 1 /\ calls = 2
    /\ \E c \in BagToSet(documents) : CopiesIn(c, documents) = 2 * CopiesIn(c, vector_db.chunks)
    /\ \E p \in Procs : frame[p] \in {"bootstrap", "initialize"} /\ Done(p)

\* call p is inside get_context of the orchestrator
InOrchestrator(p) ==
    /\ entry[p] \in {"get_context", "http"}
    /\ frame[p] \in {"bootstrap", "delegate", "fallback", "fresh"}

\* C30: when every adapter call and every backend call returns or fails,
\* every get_context call of the orchestrator ends with a response or an
\* error, and no call aggregates a source more than twice (once in the
\* bootstrap, once for the request).
C30_GetContextTerminates ==
    /\ \A p \in Procs :
          (pc[p] = "aggregating" /\ InOrchestrator(p))
             ~> (Done(p) /\ response[p].kind \in {"response", "exception", "http_error"})
    /\ [](\A p \in Procs : \A source \in Range(AllSources) : fetches[p][source] <= 2)

\* a call has ended after the bootstrap aggregation and the aggregation
\* of its own request
C30_Witness ==
    \E p \in Procs :
        /\ Answered(p) /\ InOrchestrator(p)
        /\ fetches[p]["zoom"] = 2

=============================================================================
